---------------------------- MODULE Spec2Model ----------------------------
(***************************************************************************)
(* A model of dgl/aten/csr.h: the CSRMatrix value type (construction,      *)
(* CheckValidity, Save/Load, CopyTo) and the CSR routines CSRSort_,        *)
(* CSRSort, CSRSliceRows and CSRToSimple.                                  *)
(*                                                                         *)
(* An IdArray is a handle to a shared buffer: the heap is a sequence of    *)
(* buffers, a handle is an index into it, and handle 0 is the null array.  *)
(* Copying a CSRMatrix copies handles; Clone and CopyTo allocate buffers.  *)
(***************************************************************************)
EXTENDS Integers, Sequences, FiniteSets, TLC

VARIABLES
  heap,   \* the buffers behind every IdArray: <<[bits, ctx, vals], ...>>
  csr,    \* the matrix the operations are applied to
  fs,     \* the dmlc::Stream: the sequence of values written so far
  ret,    \* the matrix the last operation returned (for Load: its target)
  op      \* the last operation, its inputs and its outcome

vars == <<heap, csr, fs, ret, op>>

----------------------------------------------------------------------------
(* Bounds *)

\* caller arrays handed to the constructors: longest array, largest element
CtorMaxLen == 2
CtorMaxVal == 1
\* TLC's integers are 32 bits wide, so the largest value of the 32-bit
\* element type (0x7FFFFFFF) is scaled down to a value the shapes can exceed
NarrowMax == 1
\* matrices handed to Save/Load/CopyTo
IoMaxRows == 2
IoMaxCols == 2
IoMaxNnz == 1
\* matrices handed to the CSR routines
MaxRows == 2
MaxCols == 2
MaxNnz == 3

----------------------------------------------------------------------------
(* Arrays *)

DTypeBits == {32, 64}
Contexts == {"cpu", "gpu"}

Types == {[bits |-> b, ctx |-> c] : b \in DTypeBits, c \in Contexts}
TypedBuf(t, v) == [bits |-> t.bits, ctx |-> t.ctx, vals |-> v]

NullArray == 0
IsNullArray(a) == a = NullArray

\* what a null (or dangling) handle reads as: an empty int64 array on the cpu
NullBuf == [bits |-> 64, ctx |-> "cpu", vals |-> <<>>]
Buf(h, a) == IF a \in 1..Len(h) THEN h[a] ELSE NullBuf
Vals(h, a) == Buf(h, a).vals

SeqsUpTo(S, n) == UNION {[1..k -> S] : k \in 0..n}
Zeros(n) == [i \in 1..n |-> 0]
Range(lo, hi) == [i \in 1..(hi - lo) |-> lo + i - 1]
Reverse(s) == [i \in 1..Len(s) |-> s[Len(s) + 1 - i]]
NonDecreasing(s) == \A i \in 1..(Len(s) - 1) : s[i] <= s[i + 1]

\* IdArray::Clone and IdArray::CopyTo: a new buffer with the same elements
ArrayClone(h, a) ==
  [heap |-> Append(h, Buf(h, a)), arr |-> Len(h) + 1]
ArrayCopyTo(h, a, ctx) ==
  [heap |-> Append(h, [Buf(h, a) EXCEPT !.ctx = ctx]), arr |-> Len(h) + 1]

----------------------------------------------------------------------------
(* CSRMatrix *)

NoMatrix == [none |-> TRUE]

\* CSRMatrix() = default
DefaultMatrix ==
  [num_rows |-> 0, num_cols |-> 0, indptr |-> NullArray, indices |-> NullArray,
   data |-> NullArray, sorted |-> FALSE]

CSRHasData(m) == ~IsNullArray(m.data)

SameDType(h, a, b) == Buf(h, a).bits = Buf(h, b).bits
SameContext(h, a, b) == Buf(h, a).ctx = Buf(h, b).ctx
\* CHECK_NO_OVERFLOW: an int64 shape value fits the arrays' element type
NoOverflow(bits, val) == bits = 32 => val <= NarrowMax

\* a matrix whose data check is not guarded by IsNullArray
CheckValidityUnguarded(h, m) ==
  /\ SameDType(h, m.indptr, m.indices)
  /\ SameContext(h, m.indptr, m.indices)
  /\ ~IsNullArray(m.data)
  /\ SameDType(h, m.indptr, m.data)
  /\ SameContext(h, m.indptr, m.data)
  /\ NoOverflow(Buf(h, m.indptr).bits, m.num_rows)
  /\ NoOverflow(Buf(h, m.indptr).bits, m.num_cols)
  /\ Len(Vals(h, m.indptr)) = m.num_rows + 1

\* a validity check that forgets the length of indptr
CheckValidityNoLength(h, m) ==
  /\ SameDType(h, m.indptr, m.indices)
  /\ SameContext(h, m.indptr, m.indices)
  /\ (~IsNullArray(m.data) =>
        /\ SameDType(h, m.indptr, m.data)
        /\ SameContext(h, m.indptr, m.data))
  /\ NoOverflow(Buf(h, m.indptr).bits, m.num_rows)
  /\ NoOverflow(Buf(h, m.indptr).bits, m.num_cols)

\* TRUE when every CHECK passes; FALSE is the fatal fault
CheckValidity(h, m) ==
  /\ SameDType(h, m.indptr, m.indices)
  /\ SameContext(h, m.indptr, m.indices)
  /\ (~IsNullArray(m.data) =>
        /\ SameDType(h, m.indptr, m.data)
        /\ SameContext(h, m.indptr, m.data))
  /\ NoOverflow(Buf(h, m.indptr).bits, m.num_rows)
  /\ NoOverflow(Buf(h, m.indptr).bits, m.num_cols)
  /\ Len(Vals(h, m.indptr)) = m.num_rows + 1

\* CSRMatrix(nrows, ncols, parr, iarr, darr, sorted_flag)
CSRMatrixCtor(h, nrows, ncols, parr, iarr, darr, sorted_flag) ==
  LET m == [num_rows |-> nrows, num_cols |-> ncols, indptr |-> parr,
            indices |-> iarr, data |-> darr, sorted |-> sorted_flag]
  IN [ok |-> CheckValidity(h, m), m |-> m]

\* the SparseMatrix envelope of a CSR matrix
SparseMatrix(format, nrows, ncols, indices, flags) ==
  [format |-> format, num_rows |-> nrows, num_cols |-> ncols,
   indices |-> indices, flags |-> flags]

\* explicit CSRMatrix(const SparseMatrix& spmat)
CSRMatrixFromSparse(h, spmat) ==
  LET m == [num_rows |-> spmat.num_rows, num_cols |-> spmat.num_cols,
            indptr |-> spmat.indices[1], indices |-> spmat.indices[2],
            data |-> spmat.indices[3], sorted |-> spmat.flags[1]]
  IN [ok |-> CheckValidity(h, m), m |-> m]

----------------------------------------------------------------------------
(* The caller's arguments *)

ArgBufs(valSets) ==
  {[bits |-> b, ctx |-> c, vals |-> v] : b \in DTypeBits, c \in Contexts, v \in valSets}

Lengths(n) == {Zeros(k) : k \in 0..n}

Args(nrows, ncols, parr, iarr, hasData, darr, flag) ==
  [nrows |-> nrows, ncols |-> ncols, parr |-> parr, iarr |-> iarr,
   hasData |-> hasData, darr |-> darr, flag |-> flag]

\* the caller's arrays in the heap: handles 1, 2 and (when data is given) 3
ArgHeap(a) == <<a.parr, a.iarr>> \o (IF a.hasData THEN <<a.darr>> ELSE <<>>)
ArgData(a) == IF a.hasData THEN 3 ELSE NullArray

----------------------------------------------------------------------------
(* Construction *)

Init ==
  /\ heap = <<>>
  /\ csr = NoMatrix
  /\ fs = <<>>
  /\ ret = NoMatrix
  /\ op = [name |-> "init"]

\* CSRMatrix(nrows, ncols, parr, iarr, darr, sorted_flag) on the arguments a
ConstructWith(a) ==
  LET h == ArgHeap(a)
      r == CSRMatrixCtor(h, a.nrows, a.ncols, 1, 2, ArgData(a), a.flag)
  IN /\ heap' = h
     /\ csr' = IF r.ok THEN r.m ELSE csr
     /\ op' = [name |-> "CSRMatrix",
               status |-> IF r.ok THEN "ok" ELSE "fatal", args |-> a]
     /\ UNCHANGED <<fs, ret>>

\* CSRMatrix(spmat) on the envelope of the arguments a
ConstructFromSparseMatrixWith(a) ==
  LET h == ArgHeap(a)
      spmat == SparseMatrix("csr", a.nrows, a.ncols,
                            <<1, 2, ArgData(a)>>, <<a.flag>>)
      r == CSRMatrixFromSparse(h, spmat)
  IN /\ heap' = h
     /\ csr' = IF r.ok THEN r.m ELSE csr
     /\ op' = [name |-> "CSRMatrixFromSparseMatrix",
               status |-> IF r.ok THEN "ok" ELSE "fatal", args |-> a]
     /\ UNCHANGED <<fs, ret>>

\* arrays of every element type and device, told apart by their length only
TypeArgs(nr, nc, p, i, hd, d) ==
  Args(nr, nc, p, i, hd, IF hd THEN d ELSE NullBuf, FALSE)

\* arrays of one element type and device, with every content of indptr
ContentArgs(nr, nc, t, pv, iv, hd, dv, f) ==
  Args(nr, nc, TypedBuf(t, pv), TypedBuf(t, iv), hd,
       IF hd THEN TypedBuf(t, dv) ELSE NullBuf, f)

Construct ==
  /\ op.name = "init"
  /\ \/ \E nr \in 0..CtorMaxLen, nc \in {0, NarrowMax + 1}, hd \in BOOLEAN,
           p \in ArgBufs(Lengths(CtorMaxLen)), i \in ArgBufs(Lengths(CtorMaxLen)),
           d \in ArgBufs(Lengths(CtorMaxLen)) :
          ConstructWith(TypeArgs(nr, nc, p, i, hd, d))
     \/ \E nr \in 0..CtorMaxLen, nc \in 0..CtorMaxLen, t \in Types,
           pv \in SeqsUpTo(0..CtorMaxVal, CtorMaxLen), iv \in Lengths(CtorMaxLen),
           hd \in BOOLEAN, dv \in Lengths(CtorMaxLen), f \in BOOLEAN :
          ConstructWith(ContentArgs(nr, nc, t, pv, iv, hd, dv, f))

ConstructFromSparseMatrix ==
  /\ op.name = "init"
  /\ \/ \E nr \in 0..CtorMaxLen, nc \in {0, NarrowMax + 1}, hd \in BOOLEAN,
           p \in ArgBufs(Lengths(CtorMaxLen)), i \in ArgBufs(Lengths(CtorMaxLen)),
           d \in ArgBufs(Lengths(CtorMaxLen)) :
          ConstructFromSparseMatrixWith(TypeArgs(nr, nc, p, i, hd, d))
     \/ \E nr \in 0..CtorMaxLen, nc \in 0..CtorMaxLen, t \in Types,
           pv \in SeqsUpTo(0..CtorMaxVal, CtorMaxLen), iv \in Lengths(CtorMaxLen),
           hd \in BOOLEAN, dv \in Lengths(CtorMaxLen), f \in BOOLEAN :
          ConstructFromSparseMatrixWith(ContentArgs(nr, nc, t, pv, iv, hd, dv, f))

Next == Construct \/ ConstructFromSparseMatrix

Spec == Init /\ [][Next]_vars

----------------------------------------------------------------------------
(* Well-formed matrices: the inputs of Save, Load, CopyTo and the routines *)

IndptrsOf(nrows, maxNnz) ==
  {p \in [1..(nrows + 1) -> 0..maxNnz] : p[1] = 0 /\ NonDecreasing(p)}

\* entry ids: the positions, in order or reversed
DataChoices(n) == {Range(0, n), Reverse(Range(0, n))}

\* the state after constructing a matrix from the arguments a
Constructs(a) ==
  LET r == CSRMatrixCtor(ArgHeap(a), a.nrows, a.ncols, 1, 2, ArgData(a), a.flag)
  IN /\ r.ok
     /\ heap = ArgHeap(a)
     /\ csr = r.m
     /\ fs = <<>>
     /\ ret = NoMatrix
     /\ op = [name |-> "init"]

\* the states after constructing a well-formed matrix within the bounds
WellFormedInit(maxRows, maxCols, maxNnz, types) ==
  \E nr \in 0..maxRows, nc \in 0..maxCols, t \in types, f \in BOOLEAN,
     hd \in BOOLEAN :
    \E p \in IndptrsOf(nr, maxNnz) :
      \E iv \in [1..p[nr + 1] -> 0..(nc - 1)], dv \in DataChoices(p[nr + 1]) :
        Constructs(Args(nr, nc, TypedBuf(t, p), TypedBuf(t, iv), hd,
                        IF hd THEN TypedBuf(t, dv) ELSE NullBuf, f))

----------------------------------------------------------------------------
(* Save and Load *)

kDGLSerialize_AtenCsrMatrixMagic == "0xDD6cd31205dff127"
OtherMagic == "0xDD6cd31205dff128"

\* dmlc::Stream::Write of a uint64, an int64, a bool and an NDArray
WriteU64(s, v) == Append(s, [k |-> "u64", u |-> v])
WriteI64(s, v) == Append(s, [k |-> "i64", i |-> v])
WriteBool(s, v) == Append(s, [k |-> "bool", b |-> v])
WriteArray(s, h, a) ==
  Append(s, [k |-> "ndarray", null |-> IsNullArray(a), bits |-> Buf(h, a).bits,
             vals |-> Vals(h, a)])

\* dmlc::Stream::Read: the next value is there and of the kind asked for
CanRead(s, pos, kind) == pos + 1 <= Len(s) /\ s[pos + 1].k = kind

\* reading an NDArray allocates its buffer on the loader's device
ReadArray(h, f, ctx) ==
  IF f.null THEN [heap |-> h, arr |-> NullArray]
  ELSE [heap |-> Append(h, [bits |-> f.bits, ctx |-> ctx, vals |-> f.vals]),
        arr |-> Len(h) + 1]

\* a Save that writes the rows before the columns
SaveRowsFirst(h, this, s) ==
  LET s1 == WriteU64(s, kDGLSerialize_AtenCsrMatrixMagic)
      s2 == WriteI64(s1, this.num_rows)
      s3 == WriteI64(s2, this.num_cols)
      s4 == WriteArray(s3, h, this.indptr)
      s5 == WriteArray(s4, h, this.indices)
      s6 == WriteArray(s5, h, this.data)
  IN WriteBool(s6, this.sorted)

Save(h, this, s) ==
  LET s1 == WriteU64(s, kDGLSerialize_AtenCsrMatrixMagic)
      s2 == WriteI64(s1, this.num_cols)
      s3 == WriteI64(s2, this.num_rows)
      s4 == WriteArray(s3, h, this.indptr)
      s5 == WriteArray(s4, h, this.indices)
      s6 == WriteArray(s5, h, this.data)
  IN WriteBool(s6, this.sorted)

Loaded(status, h, m, pos) == [status |-> status, heap |-> h, m |-> m, pos |-> pos]

\* the fields after the magic number, each read behind its CHECK
LoadFields(h, this, s, ctx) ==
  IF ~CanRead(s, 1, "i64") THEN Loaded("fatal", h, this, 1) ELSE
  LET t2 == [this EXCEPT !.num_cols = s[2].i] IN
  IF ~CanRead(s, 2, "i64") THEN Loaded("fatal", h, t2, 2) ELSE
  LET t3 == [t2 EXCEPT !.num_rows = s[3].i] IN
  IF ~CanRead(s, 3, "ndarray") THEN Loaded("fatal", h, t3, 3) ELSE
  LET a4 == ReadArray(h, s[4], ctx)
      t4 == [t3 EXCEPT !.indptr = a4.arr] IN
  IF ~CanRead(s, 4, "ndarray") THEN Loaded("fatal", a4.heap, t4, 4) ELSE
  LET a5 == ReadArray(a4.heap, s[5], ctx)
      t5 == [t4 EXCEPT !.indices = a5.arr] IN
  IF ~CanRead(s, 5, "ndarray") THEN Loaded("fatal", a5.heap, t5, 5) ELSE
  LET a6 == ReadArray(a5.heap, s[6], ctx)
      t6 == [t5 EXCEPT !.data = a6.arr] IN
  IF ~CanRead(s, 6, "bool") THEN Loaded("fatal", a6.heap, t6, 6) ELSE
  LET t7 == [t6 EXCEPT !.sorted = s[7].b] IN
  IF ~CheckValidity(a6.heap, t7) THEN Loaded("fatal", a6.heap, t7, 7)
  ELSE Loaded("ok", a6.heap, t7, 7)

\* a Load that trusts the record before it looks at the magic number
LoadMagicLast(h, this, s, ctx) ==
  IF ~CanRead(s, 0, "u64") THEN Loaded("fatal", h, this, 0) ELSE
  LET r == LoadFields(h, this, s, ctx) IN
  IF s[1].u # kDGLSerialize_AtenCsrMatrixMagic
  THEN Loaded("fatal", r.heap, r.m, r.pos) ELSE r

\* bool Load(dmlc::Stream* fs): pos counts the values read from the stream
Load(h, this, s, ctx) ==
  IF ~CanRead(s, 0, "u64") THEN Loaded("fatal", h, this, 0) ELSE
  IF s[1].u # kDGLSerialize_AtenCsrMatrixMagic THEN Loaded("fatal", h, this, 1)
  ELSE LoadFields(h, this, s, ctx)

\* a CopyTo that hands the data array over without copying it
CopyToKeepingData(h, this, ctx) ==
  IF ctx = Buf(h, this.indptr).ctx THEN [ok |-> TRUE, heap |-> h, m |-> this]
  ELSE
    LET p == ArrayCopyTo(h, this.indptr, ctx)
        i == ArrayCopyTo(p.heap, this.indices, ctx)
        r == CSRMatrixCtor(i.heap, this.num_rows, this.num_cols, p.arr, i.arr,
                           this.data, this.sorted)
    IN [ok |-> r.ok, heap |-> i.heap, m |-> r.m]

\* CSRMatrix CopyTo(const DLContext& ctx) const
CopyTo(h, this, ctx) ==
  IF ctx = Buf(h, this.indptr).ctx THEN [ok |-> TRUE, heap |-> h, m |-> this]
  ELSE
    LET p == ArrayCopyTo(h, this.indptr, ctx)
        i == ArrayCopyTo(p.heap, this.indices, ctx)
        d == IF IsNullArray(this.data) THEN [heap |-> i.heap, arr |-> this.data]
             ELSE ArrayCopyTo(i.heap, this.data, ctx)
        r == CSRMatrixCtor(d.heap, this.num_rows, this.num_cols, p.arr, i.arr,
                           d.arr, this.sorted)
    IN [ok |-> r.ok, heap |-> d.heap, m |-> r.m]

InitIO == WellFormedInit(IoMaxRows, IoMaxCols, IoMaxNnz, Types)

DoSave ==
  /\ op.name = "init"
  /\ fs' = Save(heap, csr, fs)
  /\ op' = [name |-> "Save"]
  /\ UNCHANGED <<heap, csr, ret>>

\* what a stream handed to Load may hold instead of a saved record: another
\* magic number, another row count, or a record cut short
TamperedStreams(s) ==
  LET rows == [s EXCEPT ![3] = [k |-> "i64", i |-> s[3].i + 1]]
  IN {[s EXCEPT ![1] = [k |-> "u64", u |-> OtherMagic]], rows}
     \cup {SubSeq(s, 1, n) : n \in 0..(Len(s) - 1)}
     \cup {SubSeq(rows, 1, n) : n \in 3..(Len(s) - 1)}

Tamper ==
  /\ op.name = "Save"
  /\ fs' \in TamperedStreams(fs)
  /\ op' = [name |-> "Tamper"]
  /\ UNCHANGED <<heap, csr, ret>>

DoLoad ==
  /\ op.name \in {"Save", "Tamper"}
  /\ \E ctx \in Contexts :
       LET r == Load(heap, DefaultMatrix, fs, ctx)
       IN /\ heap' = r.heap
          /\ ret' = r.m
          /\ op' = [name |-> "Load", status |-> r.status, pos |-> r.pos,
                    ctx |-> ctx]
  /\ UNCHANGED <<csr, fs>>

DoCopyTo ==
  /\ op.name = "init"
  /\ \E ctx \in Contexts :
       LET r == CopyTo(heap, csr, ctx)
       IN /\ heap' = r.heap
          /\ ret' = IF r.ok THEN r.m ELSE ret
          /\ op' = [name |-> "CopyTo", status |-> IF r.ok THEN "ok" ELSE "fatal",
                    ctx |-> ctx]
  /\ UNCHANGED <<csr, fs>>

NextIO == DoSave \/ Tamper \/ DoLoad \/ DoCopyTo

SpecIO == InitIO /\ [][NextIO]_vars

----------------------------------------------------------------------------
(* The CSR routines *)

\* row r (from 0) holds the positions indptr[r]+1 .. indptr[r+1] of indices
RowPositions(p, r) == (p[r + 1] + 1)..p[r + 2]
Entries(p, cols, r) ==
  [i \in 1..(p[r + 2] - p[r + 1]) |-> [col |-> cols[p[r + 1] + i], pos |-> p[r + 1] + i]]

\* the entry ids: the data array, or 0..nnz-1 when it is null
DataIds(h, m) ==
  IF CSRHasData(m) THEN Vals(h, m.data) ELSE Range(0, Len(Vals(h, m.indices)))

\* bool CSRIsSorted(CSRMatrix csr)
CSRIsSorted(h, m) ==
  \A r \in 0..(m.num_rows - 1) :
    \A i, j \in RowPositions(Vals(h, m.indptr), r) :
      i < j => Vals(h, m.indices)[i] <= Vals(h, m.indices)[j]

RECURSIVE InsertBeforeEqual(_, _)
InsertBeforeEqual(row, x) ==
  IF row = <<>> THEN <<x>>
  ELSE IF Head(row).col < x.col THEN <<Head(row)>> \o InsertBeforeEqual(Tail(row), x)
  ELSE <<x>> \o row

RECURSIVE InsertAfterEqual(_, _)
InsertAfterEqual(row, x) ==
  IF row = <<>> THEN <<x>>
  ELSE IF Head(row).col <= x.col THEN <<Head(row)>> \o InsertAfterEqual(Tail(row), x)
  ELSE <<x>> \o row

\* a sort that reverses the entries of one column
RECURSIVE SortRowUnstable(_)
SortRowUnstable(row) ==
  IF row = <<>> THEN <<>>
  ELSE InsertBeforeEqual(SortRowUnstable(SubSeq(row, 1, Len(row) - 1)), row[Len(row)])

\* the stable ascending sort of one row's entries by column
RECURSIVE SortRow(_)
SortRow(row) ==
  IF row = <<>> THEN <<>>
  ELSE InsertAfterEqual(SortRow(SubSeq(row, 1, Len(row) - 1)), row[Len(row)])

\* the entries of rows 0..n-1, each row sorted
RECURSIVE SortedEntries(_, _, _)
SortedEntries(p, cols, n) ==
  IF n = 0 THEN <<>>
  ELSE SortedEntries(p, cols, n - 1) \o SortRow(Entries(p, cols, n - 1))

\* void CSRSort_(CSRMatrix* csr): indices and data are rewritten in place.
\* csr.h does not say what the sort leaves in csr->sorted: flag is that value.
CSRSort_(h, m, flag) ==
  LET order == SortedEntries(Vals(h, m.indptr), Vals(h, m.indices), m.num_rows)
      data == Vals(h, m.data)
      h1 == [h EXCEPT ![m.indices].vals = [i \in 1..Len(order) |-> order[i].col]]
      h2 == IF CSRHasData(m)
            THEN [h1 EXCEPT ![m.data].vals = [i \in 1..Len(order) |-> data[order[i].pos]]]
            ELSE h1
  IN [heap |-> h2, m |-> [m EXCEPT !.sorted = flag]]

Sorted(h, m, inplace) == [heap |-> h, m |-> m, inplace |-> inplace]

\* a CSRSort that sorts the arrays of its argument
CSRSortNoClone(h, m, flag) ==
  IF m.sorted THEN Sorted(h, m, FALSE)
  ELSE
    LET r == CSRMatrixCtor(h, m.num_rows, m.num_cols, m.indptr, m.indices,
                           m.data, m.sorted)
        s == CSRSort_(h, r.m, flag)
    IN Sorted(s.heap, s.m, TRUE)

\* a CSRSort that does not look at the sorted flag
CSRSortAlways(h, m, flag) ==
  LET i == ArrayClone(h, m.indices)
      d == IF CSRHasData(m) THEN ArrayClone(i.heap, m.data)
           ELSE [heap |-> i.heap, arr |-> m.data]
      r == CSRMatrixCtor(d.heap, m.num_rows, m.num_cols, m.indptr, i.arr,
                         d.arr, m.sorted)
      s == CSRSort_(d.heap, r.m, flag)
  IN Sorted(s.heap, s.m, TRUE)

\* inline CSRMatrix CSRSort(CSRMatrix csr)
CSRSort(h, m, flag) ==
  IF m.sorted THEN Sorted(h, m, FALSE)
  ELSE
    LET i == ArrayClone(h, m.indices)
        d == IF CSRHasData(m) THEN ArrayClone(i.heap, m.data)
             ELSE [heap |-> i.heap, arr |-> m.data]
        r == CSRMatrixCtor(d.heap, m.num_rows, m.num_cols, m.indptr, i.arr,
                           d.arr, m.sorted)
        s == CSRSort_(d.heap, r.m, flag)
    IN Sorted(s.heap, s.m, TRUE)

\* three new arrays of the element type and device of m's indptr
NewArrays(h, m, pv, iv, dv) ==
  LET t == Buf(h, m.indptr)
  IN h \o <<TypedBuf(t, pv), TypedBuf(t, iv), TypedBuf(t, dv)>>

\* a slice that keeps the row offsets of its source
CSRSliceRowsNoRebase(h, m, start, end) ==
  LET p == Vals(h, m.indptr)
      lo == p[start + 1]
      hi == p[end + 1]
      pv == [i \in 1..(end - start + 1) |-> p[start + i]]
      iv == SubSeq(Vals(h, m.indices), lo + 1, hi)
      dv == SubSeq(DataIds(h, m), lo + 1, hi)
      h1 == NewArrays(h, m, pv, iv, dv)
  IN [heap |-> h1,
      m |-> CSRMatrixCtor(h1, end - start, m.num_cols, Len(h) + 1, Len(h) + 2,
                          Len(h) + 3, m.sorted).m]

\* CSRMatrix CSRSliceRows(CSRMatrix csr, int64_t start, int64_t end)
CSRSliceRows(h, m, start, end) ==
  LET p == Vals(h, m.indptr)
      lo == p[start + 1]
      hi == p[end + 1]
      pv == [i \in 1..(end - start + 1) |-> p[start + i] - lo]
      iv == SubSeq(Vals(h, m.indices), lo + 1, hi)
      dv == SubSeq(DataIds(h, m), lo + 1, hi)
      h1 == NewArrays(h, m, pv, iv, dv)
  IN [heap |-> h1,
      m |-> CSRMatrixCtor(h1, end - start, m.num_cols, Len(h) + 1, Len(h) + 2,
                          Len(h) + 3, m.sorted).m]

\* the row (from 0) of position k of indices
RowOf(p, k) == CHOOSE r \in 0..(Len(p) - 2) : k \in RowPositions(p, r)

\* entry k of the sorted entries opens a simplified entry
OpensGroup(p, order, k) ==
  \/ k = p[RowOf(p, k) + 1] + 1
  \/ order[k].col # order[k - 1].col

\* the simplified entry (from 1) of each of the sorted entries
GroupOf(p, order) ==
  [k \in 1..Len(order) |-> Cardinality({j \in 1..k : OpensGroup(p, order, j)})]

\* a ToSimple whose edge map follows the sorted entries, not the entry ids
CSRToSimpleSortedMap(h, m) ==
  LET p == Vals(h, m.indptr)
      order == SortedEntries(p, Vals(h, m.indices), m.num_rows)
      group == GroupOf(p, order)
      n == IF order = <<>> THEN 0 ELSE group[Len(order)]
      first == [g \in 1..n |-> CHOOSE k \in 1..Len(order) :
                                 group[k] = g /\ OpensGroup(p, order, k)]
      pv == [r \in 1..(m.num_rows + 1) |->
               Cardinality({g \in 1..n : first[g] <= p[r]})]
      h1 == h \o <<TypedBuf(Buf(h, m.indptr), pv),
                   TypedBuf(Buf(h, m.indptr), [g \in 1..n |-> order[first[g]].col])>>
  IN [heap |-> h1,
      m |-> CSRMatrixCtor(h1, m.num_rows, m.num_cols, Len(h) + 1, Len(h) + 2,
                          NullArray, TRUE).m,
      cnt |-> [g \in 1..n |-> Cardinality({k \in 1..Len(order) : group[k] = g})],
      edge_map |-> [e \in 1..Len(order) |-> group[e] - 1]]

\* std::tuple<CSRMatrix, IdArray, IdArray> CSRToSimple(const CSRMatrix& csr):
\* the simplified matrix, the count of each of its entries, and the map from
\* the entry ids of csr to the entry ids of the simplified matrix
CSRToSimple(h, m) ==
  LET p == Vals(h, m.indptr)
      order == SortedEntries(p, Vals(h, m.indices), m.num_rows)
      ids == DataIds(h, m)
      group == GroupOf(p, order)
      n == IF order = <<>> THEN 0 ELSE group[Len(order)]
      first == [g \in 1..n |-> CHOOSE k \in 1..Len(order) :
                                 group[k] = g /\ OpensGroup(p, order, k)]
      pv == [r \in 1..(m.num_rows + 1) |->
               Cardinality({g \in 1..n : first[g] <= p[r]})]
      h1 == h \o <<TypedBuf(Buf(h, m.indptr), pv),
                   TypedBuf(Buf(h, m.indptr), [g \in 1..n |-> order[first[g]].col])>>
  IN [heap |-> h1,
      m |-> CSRMatrixCtor(h1, m.num_rows, m.num_cols, Len(h) + 1, Len(h) + 2,
                          NullArray, TRUE).m,
      cnt |-> [g \in 1..n |-> Cardinality({k \in 1..Len(order) : group[k] = g})],
      edge_map |-> [e \in 1..Len(order) |->
                      group[CHOOSE k \in 1..Len(order) : ids[order[k].pos] = e - 1] - 1]]

\* the routines are handed well-formed matrices whose sorted flag, when set,
\* is true of the indices
InitOps ==
  /\ WellFormedInit(MaxRows, MaxCols, MaxNnz, {[bits |-> 64, ctx |-> "cpu"]})
  /\ csr.sorted => CSRIsSorted(heap, csr)

DoSortInPlace ==
  /\ op.name = "init"
  /\ \E flag \in {csr.sorted, TRUE} :
       LET r == CSRSort_(heap, csr, flag)
       IN /\ heap' = r.heap
          /\ csr' = r.m
          /\ op' = [name |-> "CSRSort_"]
  /\ UNCHANGED <<fs, ret>>

\* CSRSort of the matrix, and then of what the first CSRSort returned
DoSort ==
  /\ \/ op.name = "init"
     \/ op.name = "CSRSort" /\ op.n = 1
  /\ LET m == IF op.name = "init" THEN csr ELSE ret
     IN \E flag \in {m.sorted, TRUE} :
          LET r == CSRSort(heap, m, flag)
          IN /\ heap' = r.heap
             /\ ret' = r.m
             /\ op' = [name |-> "CSRSort", n |-> IF op.name = "init" THEN 1 ELSE 2,
                       input |-> m, inplace |-> r.inplace]
  /\ UNCHANGED <<csr, fs>>

DoSliceRows ==
  /\ op.name = "init"
  /\ \E start \in 0..csr.num_rows :
       \E end \in start..csr.num_rows :
         LET r == CSRSliceRows(heap, csr, start, end)
         IN /\ heap' = r.heap
            /\ ret' = r.m
            /\ op' = [name |-> "CSRSliceRows", start |-> start, end |-> end]
  /\ UNCHANGED <<csr, fs>>

DoToSimple ==
  /\ op.name = "init"
  /\ LET r == CSRToSimple(heap, csr)
     IN /\ heap' = r.heap
        /\ ret' = r.m
        /\ op' = [name |-> "CSRToSimple", cnt |-> r.cnt, edge_map |-> r.edge_map]
  /\ UNCHANGED <<csr, fs>>

NextOps == DoSortInPlace \/ DoSort \/ DoSliceRows \/ DoToSimple

SpecOps == InitOps /\ [][NextOps]_vars

----------------------------------------------------------------------------
(* Claims about construction *)

Constructed == op.name \in {"CSRMatrix", "CSRMatrixFromSparseMatrix"}

\* indptr is a prefix sum over indices (and data, when present)
PrefixSum(pv, ilen, hasData, dlen) ==
  /\ Len(pv) >= 1
  /\ NonDecreasing(pv)
  /\ pv[1] = 0
  /\ pv[Len(pv)] = ilen
  /\ (hasData => dlen = ilen)

MatrixPrefixSum(h, m) ==
  PrefixSum(Vals(h, m.indptr), Len(Vals(h, m.indices)), CSRHasData(m),
            Len(Vals(h, m.data)))

\* C1: a constructor aborts fatally, producing no matrix, exactly when
\* len(indptr) # num_rows + 1, or indptr and indices differ in element type
\* or device, or a present data array differs from indptr in element type or
\* device, or the element type cannot represent num_rows or num_cols; in every
\* other case (a null data array skips the data checks) the matrix holds
\* exactly the arguments.
C1_ConstructionValidates ==
  Constructed =>
    LET a == op.args
        bad == \/ Len(a.parr.vals) # a.nrows + 1
               \/ a.parr.bits # a.iarr.bits
               \/ a.parr.ctx # a.iarr.ctx
               \/ (a.hasData /\ a.darr.bits # a.parr.bits)
               \/ (a.hasData /\ a.darr.ctx # a.parr.ctx)
               \/ (a.parr.bits = 32 /\ a.nrows > NarrowMax)
               \/ (a.parr.bits = 32 /\ a.ncols > NarrowMax)
    IN /\ op.status = (IF bad THEN "fatal" ELSE "ok")
       /\ op.status = "fatal" => csr = NoMatrix
       /\ op.status = "ok" =>
            /\ csr = [num_rows |-> a.nrows, num_cols |-> a.ncols, indptr |-> 1,
                      indices |-> 2, data |-> (IF a.hasData THEN 3 ELSE 0),
                      sorted |-> a.flag]
            /\ heap[1] = a.parr /\ heap[2] = a.iarr
            /\ (a.hasData => heap[3] = a.darr)

\* a construction that is refused for the device of its data array alone, and
\* one that succeeds with a null data array
C1_Witness ==
  /\ Constructed /\ op.status = "fatal"
  /\ op.args.hasData /\ op.args.darr.ctx # op.args.parr.ctx
  /\ op.args.darr.bits = op.args.parr.bits
  /\ op.args.parr.bits = op.args.iarr.bits /\ op.args.parr.ctx = op.args.iarr.ctx
  /\ Len(op.args.parr.vals) = op.args.nrows + 1
  /\ op.args.parr.bits = 64

\* C2 as stated: every constructed matrix has an indptr of length
\* num_rows + 1 that is non-decreasing, starts at 0 and ends at
\* len(indices) = len(data when present).
C2_Original ==
  (Constructed /\ op.status = "ok") =>
    /\ Len(Vals(heap, csr.indptr)) = csr.num_rows + 1
    /\ MatrixPrefixSum(heap, csr)

\* C2 amended: every constructed matrix has an indptr of length
\* num_rows + 1 and arrays of one element type and device; that indptr is
\* non-decreasing, starts at 0 and ends at len(indices) = len(data) is not
\* checked: it holds of the matrix exactly when it holds of the caller's
\* arrays.
C2_ConstructedShape ==
  (Constructed /\ op.status = "ok") =>
    /\ Len(Vals(heap, csr.indptr)) = csr.num_rows + 1
    /\ Buf(heap, csr.indptr).bits = Buf(heap, csr.indices).bits
    /\ Buf(heap, csr.indptr).ctx = Buf(heap, csr.indices).ctx
    /\ (csr.data # 0 => Buf(heap, csr.data).bits = Buf(heap, csr.indptr).bits)
    /\ (csr.data # 0 => Buf(heap, csr.data).ctx = Buf(heap, csr.indptr).ctx)
    /\ MatrixPrefixSum(heap, csr) <=>
         PrefixSum(op.args.parr.vals, Len(op.args.iarr.vals), op.args.hasData,
                   Len(op.args.darr.vals))

\* a constructed matrix whose indptr decreases
C2_Witness ==
  /\ Constructed /\ op.status = "ok"
  /\ ~NonDecreasing(Vals(heap, csr.indptr))

----------------------------------------------------------------------------
(* Claims about Save, Load and CopyTo *)

\* two arrays with the same element type and the same elements
SameArray(h1, a, h2, b) ==
  /\ IsNullArray(a) <=> IsNullArray(b)
  /\ Buf(h1, a).bits = Buf(h2, b).bits
  /\ Vals(h1, a) = Vals(h2, b)

Written(h, a) ==
  [k |-> "ndarray", null |-> (a = 0), bits |-> Buf(h, a).bits, vals |-> Vals(h, a)]

\* C3: Save writes magic, num_cols, num_rows, indptr, indices, data, sorted in
\* this order, and Load of the record Save wrote yields a matrix with the
\* same num_rows, num_cols, indptr, indices, data and sorted.
C3_SaveLoadRoundTrip ==
  [][ /\ op'.name = "Save" =>
           fs' = fs \o << [k |-> "u64", u |-> kDGLSerialize_AtenCsrMatrixMagic],
                          [k |-> "i64", i |-> csr.num_cols],
                          [k |-> "i64", i |-> csr.num_rows],
                          Written(heap, csr.indptr),
                          Written(heap, csr.indices),
                          Written(heap, csr.data),
                          [k |-> "bool", b |-> csr.sorted] >>
      /\ (op.name = "Save" /\ op'.name = "Load") =>
           /\ op'.status = "ok"
           /\ ret'.num_rows = csr.num_rows
           /\ ret'.num_cols = csr.num_cols
           /\ ret'.sorted = csr.sorted
           /\ SameArray(heap', ret'.indptr, heap, csr.indptr)
           /\ SameArray(heap', ret'.indices, heap, csr.indices)
           /\ SameArray(heap', ret'.data, heap, csr.data)
    ]_vars

\* a loaded matrix with data whose row and column counts differ
C3_Witness ==
  /\ op.name = "Load" /\ op.status = "ok"
  /\ ret.num_rows # ret.num_cols
  /\ ret.data # 0 /\ Len(Vals(heap, ret.indices)) >= 1

\* the CHECKs of CheckValidity, on a loaded matrix
LoadedValid(h, m) ==
  /\ Buf(h, m.indptr).bits = Buf(h, m.indices).bits
  /\ Buf(h, m.indptr).ctx = Buf(h, m.indices).ctx
  /\ (m.data # 0 => Buf(h, m.data).bits = Buf(h, m.indptr).bits)
  /\ (m.data # 0 => Buf(h, m.data).ctx = Buf(h, m.indptr).ctx)
  /\ (Buf(h, m.indptr).bits = 32 => m.num_rows <= NarrowMax /\ m.num_cols <= NarrowMax)
  /\ Len(Vals(h, m.indptr)) = m.num_rows + 1

\* C4: Load checks the magic value before any other field is read: on another
\* magic value it aborts with nothing more read and nothing assigned; on the
\* right one it reads every field the stream holds, validates only after all
\* six are read, and returns true only if the validation passes.
C4_LoadChecksMagicFirst ==
  [][ op'.name = "Load" =>
        LET magicRead == Len(fs) >= 1 /\ fs[1].k = "u64"
            magicOk == magicRead /\ fs[1].u = kDGLSerialize_AtenCsrMatrixMagic
        IN /\ (magicRead /\ ~magicOk) =>
                /\ op'.status = "fatal"
                /\ op'.pos = 1
                /\ ret' = DefaultMatrix
                /\ heap' = heap
           /\ magicOk =>
                /\ op'.pos = Len(fs)
                /\ op'.status = "ok" <=> (Len(fs) = 7 /\ LoadedValid(heap', ret'))
           /\ op'.status = "ok" => (magicOk /\ op'.pos = 7)
    ]_vars

\* a Load refused for its magic number
C4_Witness ==
  /\ op.name = "Load" /\ op.status = "fatal"
  /\ Len(fs) = 7 /\ fs[1].u # kDGLSerialize_AtenCsrMatrixMagic

\* C5: CopyTo to the location of indptr returns the matrix itself, sharing
\* its buffers; to another location it returns a validated matrix with the
\* same num_rows, num_cols and sorted, whose indptr and indices (and data,
\* when present; a null data stays null) are copies at that location with the
\* same contents. The source is unchanged.
C5_CopyTo ==
  [][ op'.name = "CopyTo" =>
        /\ csr' = csr
        /\ \A a \in 1..Len(heap) : heap'[a] = heap[a]
        /\ op'.status = "ok"
        /\ IF op'.ctx = heap[csr.indptr].ctx
           THEN ret' = csr /\ heap' = heap
           ELSE /\ ret'.num_rows = csr.num_rows
                /\ ret'.num_cols = csr.num_cols
                /\ ret'.sorted = csr.sorted
                /\ ret'.indptr \in (Len(heap) + 1)..Len(heap')
                /\ ret'.indices \in (Len(heap) + 1)..Len(heap')
                /\ ret'.indptr # ret'.indices
                /\ heap'[ret'.indptr] = [heap[csr.indptr] EXCEPT !.ctx = op'.ctx]
                /\ heap'[ret'.indices] = [heap[csr.indices] EXCEPT !.ctx = op'.ctx]
                /\ IF csr.data = 0 THEN ret'.data = 0
                   ELSE /\ ret'.data \in (Len(heap) + 1)..Len(heap')
                        /\ ret'.data \notin {ret'.indptr, ret'.indices}
                        /\ heap'[ret'.data] = [heap[csr.data] EXCEPT !.ctx = op'.ctx]
                /\ LoadedValid(heap', ret')
    ]_vars

\* a copy to another device of a matrix with a data array
C5_Witness ==
  /\ op.name = "CopyTo" /\ op.status = "ok"
  /\ op.ctx # heap[csr.indptr].ctx
  /\ csr.data # 0 /\ Len(Vals(heap, csr.data)) >= 1

----------------------------------------------------------------------------
(* Claims about the CSR routines *)

Bijections(S) == {f \in [S -> S] : \A a, b \in S : f[a] = f[b] => a = b}

\* the matrix of the examples in csr.h: indptr = [0, 2, 3, 3, 5],
\* indices = [1, 0, 2, 3, 1], no data array
ExampleHeap ==
  << [bits |-> 64, ctx |-> "cpu", vals |-> <<0, 2, 3, 3, 5>>],
     [bits |-> 64, ctx |-> "cpu", vals |-> <<1, 0, 2, 3, 1>>] >>
ExampleMatrix ==
  [num_rows |-> 4, num_cols |-> 4, indptr |-> 1, indices |-> 2, data |-> 0,
   sorted |-> FALSE]

\* C6: CSRSort of what CSRSort returned has the same shape, indptr, indices
\* and data as what CSRSort returned; and CSRSort of a matrix whose sorted
\* flag is true returns that matrix, its buffers untouched and shared, and
\* does not call the in-place sort.
C6_SortIdempotent ==
  [][ op'.name = "CSRSort" =>
        /\ op'.input.sorted =>
             (ret' = op'.input /\ heap' = heap /\ ~op'.inplace)
        /\ op.name = "CSRSort" =>
             /\ op'.input = ret
             /\ ret'.num_rows = ret.num_rows
             /\ ret'.num_cols = ret.num_cols
             /\ SameArray(heap', ret'.indptr, heap, ret.indptr)
             /\ SameArray(heap', ret'.indices, heap, ret.indices)
             /\ SameArray(heap', ret'.data, heap, ret.data)
    ]_vars

\* a second CSRSort, of the result of sorting an unsorted matrix with data
C6_Witness ==
  /\ op.name = "CSRSort" /\ op.n = 2
  /\ ~CSRIsSorted(heap, csr) /\ csr.data # 0
  /\ CSRIsSorted(heap, ret)

\* what C7 says of one call of CSRSort_: every row's column indices are
\* ascending and a permutation of the row's indices before the call, entries
\* of one column keep their order, each data entry moves with its column
\* index, and indptr, num_rows and num_cols are unchanged
SortsEachRow ==
  LET p == Vals(heap, csr.indptr)
      cols == Vals(heap, csr.indices)
      cols2 == Vals(heap', csr'.indices)
      data == Vals(heap, csr.data)
      data2 == Vals(heap', csr'.data)
  IN /\ csr'.num_rows = csr.num_rows /\ csr'.num_cols = csr.num_cols
     /\ csr'.indptr = csr.indptr /\ heap'[csr.indptr] = heap[csr.indptr]
     /\ csr'.indices = csr.indices /\ csr'.data = csr.data
     /\ Len(cols2) = Len(cols) /\ Len(data2) = Len(data)
     /\ \A r \in 0..(csr.num_rows - 1) :
          \E f \in Bijections(RowPositions(p, r)) :
            /\ \A i \in RowPositions(p, r) :
                 /\ cols2[i] = cols[f[i]]
                 /\ csr.data # 0 => data2[i] = data[f[i]]
            /\ \A i, j \in RowPositions(p, r) :
                 i < j => /\ cols2[i] <= cols2[j]
                          /\ cols2[i] = cols2[j] => f[i] < f[j]

C8_SortIsPure ==
  [][ (op'.name = "CSRSort" /\ ~op'.input.sorted) =>
        /\ csr' = csr
        /\ \A a \in 1..Len(heap) : heap'[a] = heap[a]
        /\ op'.inplace
        /\ ret'.indices \in (Len(heap) + 1)..Len(heap')
        /\ op'.input.data # 0 =>
             (ret'.data \in (Len(heap) + 1)..Len(heap') /\ ret'.data # ret'.indices)
        /\ ret'.num_rows = op'.input.num_rows
        /\ ret'.num_cols = op'.input.num_cols
        /\ ret'.indptr = op'.input.indptr
    ]_vars

\* a CSRSort that reordered the entries of a matrix with data
C8_Witness ==
  /\ op.name = "CSRSort" /\ op.n = 1 /\ ~op.input.sorted
  /\ op.input.data # 0
  /\ Vals(heap, ret.indices) # Vals(heap, op.input.indices)
  /\ Vals(heap, ret.data) # Vals(heap, op.input.data)

\* C9: CSRSliceRows(csr, start, end) has num_rows = end - start, the num_cols
\* of csr, indptr[i] = csr.indptr[start + i] - csr.indptr[start], and the
\* column indices and entry ids of positions csr.indptr[start] ..
\* csr.indptr[end] - 1 of csr.
C9_SliceRows ==
  op.name = "CSRSliceRows" =>
    LET p == Vals(heap, csr.indptr)
        q == Vals(heap, ret.indptr)
        lo == p[op.start + 1]
        hi == p[op.end + 1]
        ex == CSRSliceRows(ExampleHeap, ExampleMatrix, 1, 3)
    IN /\ ret.num_rows = op.end - op.start
       /\ ret.num_cols = csr.num_cols
       /\ Len(q) = op.end - op.start + 1
       /\ \A i \in 0..(op.end - op.start) : q[i + 1] = p[op.start + i + 1] - lo
       /\ Len(Vals(heap, ret.indices)) = hi - lo
       /\ \A k \in 1..(hi - lo) :
            /\ Vals(heap, ret.indices)[k] = Vals(heap, csr.indices)[lo + k]
            /\ DataIds(heap, ret)[k] = DataIds(heap, csr)[lo + k]
       /\ Len(DataIds(heap, ret)) = hi - lo
       /\ ex.m.num_rows = 2 /\ ex.m.num_cols = 4
       /\ Vals(ex.heap, ex.m.indptr) = <<0, 1, 1>>
       /\ Vals(ex.heap, ex.m.indices) = <<2>>

\* a slice that starts behind a non-empty row of a matrix without data
C9_Witness ==
  /\ op.name = "CSRSliceRows"
  /\ op.start = 1 /\ op.end = 2
  /\ csr.data = 0
  /\ Vals(heap, csr.indptr)[2] >= 1
  /\ Vals(heap, ret.indptr) = <<0, 1>>

\* entry i of m1 and entry j of m2 have the same row and column
SameCell(h, m1, i, m2, j) ==
  /\ RowOf(Vals(h, m1.indptr), i) = RowOf(Vals(h, m2.indptr), j)
  /\ Vals(h, m1.indices)[i] = Vals(h, m2.indices)[j]

\* what C10 says of the simplified matrix and the counts
SimplifiedAndCounted ==
  LET nnz == Len(Vals(heap, csr.indices))
      n == Len(Vals(heap, ret.indices))
      q == Vals(heap, ret.indptr)
  IN /\ ret.num_rows = csr.num_rows /\ ret.num_cols = csr.num_cols
     /\ Len(q) = ret.num_rows + 1 /\ q[1] = 0 /\ NonDecreasing(q) /\ q[Len(q)] = n
     /\ \A j1, j2 \in 1..n : SameCell(heap, ret, j1, ret, j2) => j1 = j2
     /\ \A i \in 1..nnz : \E j \in 1..n : SameCell(heap, csr, i, ret, j)
     /\ \A j \in 1..n : \E i \in 1..nnz : SameCell(heap, csr, i, ret, j)
     /\ Len(op.cnt) = n
     /\ \A j \in 1..n :
          op.cnt[j] = Cardinality({i \in 1..nnz : SameCell(heap, csr, i, ret, j)})
     /\ Len(op.edge_map) = nnz

\* the example of CSRToSimple in csr.h
ToSimpleExample ==
  LET h == << [bits |-> 64, ctx |-> "cpu", vals |-> <<0, 0, 5, 7, 11>>],
              [bits |-> 64, ctx |-> "cpu",
               vals |-> <<0, 0, 0, 2, 2, 0, 1, 2, 2, 2, 2>>] >>
      m == [num_rows |-> 4, num_cols |-> 3, indptr |-> 1, indices |-> 2,
            data |-> 0, sorted |-> FALSE]
      r == CSRToSimple(h, m)
  IN /\ Vals(r.heap, r.m.indptr) = <<0, 0, 2, 4, 5>>
     /\ Vals(r.heap, r.m.indices) = <<0, 2, 0, 1, 2>>
     /\ r.cnt = <<3, 2, 1, 1, 4>>
     /\ r.edge_map = <<0, 0, 0, 1, 1, 2, 3, 4, 4, 4, 4>>

\* C10 as stated: for every matrix the simplified matrix has one entry for
\* each (row, col) of the input, count[j] is the number of input entries of
\* entry j, and the edge map sends each input position to the simplified
\* entry of its (row, col), the positions of each simplified entry being
\* contiguous.
C10_Original ==
  op.name = "CSRToSimple" =>
    LET nnz == Len(Vals(heap, csr.indices))
    IN /\ SimplifiedAndCounted
       /\ \A i \in 1..nnz : SameCell(heap, csr, i, ret, op.edge_map[i] + 1)
       /\ \A i, k \in 1..nnz :
            (i < k /\ op.edge_map[i] = op.edge_map[k]) =>
              \A l \in i..k : op.edge_map[l] = op.edge_map[i]

\* C10 amended: the edge map is indexed by the entry id (the position when
\* there is no data array): it sends each input entry's id to the simplified
\* entry of its (row, col); the ids of each simplified entry are contiguous,
\* in row-major order, when the rows of the input are column-sorted and its
\* ids are its positions.
C10_ToSimple ==
  op.name = "CSRToSimple" =>
    LET nnz == Len(Vals(heap, csr.indices))
        ids == DataIds(heap, csr)
    IN /\ SimplifiedAndCounted
       /\ \A i \in 1..nnz :
            SameCell(heap, csr, i, ret, op.edge_map[ids[i] + 1] + 1)
       /\ (CSRIsSorted(heap, csr) /\ ids = Range(0, nnz)) =>
            NonDecreasing(op.edge_map)
       /\ ToSimpleExample

\* a row 1, 0, 1: the two entries of column 1 are not next to each other
C10_Witness ==
  /\ op.name = "CSRToSimple"
  /\ Vals(heap, csr.indptr) = <<0, 3>>
  /\ Vals(heap, csr.indices) = <<1, 0, 1>>
  /\ op.cnt = <<1, 2>>
  /\ op.edge_map = <<1, 0, 1>>

=============================================================================
